---- MODULE Spec2Model ----
(***************************************************************************)
(* Model of the Android unlock pattern calculator (src/main.c).            *)
(*                                                                         *)
(* A tree node is identified by the sequence of point ids on the way from  *)
(* the virtual root to it (<<>> is the root, id 0).  The child list of a   *)
(* node is what add_subnodes puts into child_nodes[] for it; traversals    *)
(* are state machines whose recursion is kept as a stack of loop indices.  *)
(***************************************************************************)
EXTENDS Integers, Sequences, FiniteSets

VARIABLES
    pc,             \* control location of the running function
    table,          \* which table add_subnodes was given for the tree at hand
    guess_matrix,   \* int guess_matrix[10][10] (<<>> while no -g has filled it)
    node,           \* current tree node (path of ids from the root)
    frames,         \* loop index i of every active recursive call
    pattern_count,  \* print_summary: int pattern_count[MAX_POINTS]
    sum,            \* print_summary: sum
    valid_sum,      \* print_summary: valid_sum
    branch,         \* subtree_to_file: static int branch
    file,           \* lines written to the output file
    len,            \* print_random_patterns: len
    trial,          \* print_random_patterns: i
    nodelist,       \* fill_guess_matrix: nodelist (character codes)
    oob,            \* value a read one past the end of nodes[] yields
    node_ids,       \* add_subnodes: static int node_ids[MAX_POINTS]
    nodes,          \* fill_guess_matrix: int nodes[MAX_POINTS]
    nodes_idx,      \* indices used so far to access nodes[]
    table_idx,      \* indices used so far to access the tables
    args,           \* main: the command line
    flags,          \* main: summary_flag, guess_flag, gen_pattern_len, pattern_file
    out             \* main: what was printed to stdout, in order

vars == <<pc, table, guess_matrix, node, frames, pattern_count, sum, valid_sum, branch,
          file, len, trial, nodelist, oob, node_ids, nodes, nodes_idx, table_idx,
          args, flags, out>>

----------------------------------------------------------------------------
(* Program constants *)

MAX_POINTS == 9

DISABLED == -1

NONE == 0

TRIALS == 10

MIN_LEN == 4

ASCII_ZERO == 48

(* Bounds of the model *)

\* longest -g argument given to fill_guess_matrix
MaxLen == 3

\* largest number of distinct points in a -g argument whose tree is walked
MaxNodes == 3

----------------------------------------------------------------------------
(* The blocking table *)

Rows ==
    << <<0, 0, 0, 0, 0, 0, 0, 0, 0, 0>>,
       <<0, 0, 0, 2, 0, 0, 0, 4, 0, 5>>,
       <<0, 0, 0, 0, 0, 0, 0, 0, 5, 0>>,
       <<0, 2, 0, 0, 0, 0, 0, 5, 0, 6>>,
       <<0, 0, 0, 0, 0, 0, 5, 0, 0, 0>>,
       <<0, 0, 0, 0, 0, 0, 0, 0, 0, 0>>,
       <<0, 0, 0, 0, 5, 0, 0, 0, 0, 0>>,
       <<0, 4, 0, 5, 0, 0, 0, 0, 0, 8>>,
       <<0, 0, 5, 0, 0, 0, 0, 0, 0, 0>>,
       <<0, 5, 0, 6, 0, 0, 0, 8, 0, 0>> >>

pattern_block_matrix == [a \in 0..9 |-> [b \in 0..9 |-> Rows[a + 1][b + 1]]]

\* the tree at hand is the one built from pattern_block_matrix
Unrestricted == table = "pattern_block_matrix"

\* the block_matrix argument of add_subnodes for the tree at hand
block_matrix ==
    IF table = "guess_matrix" THEN guess_matrix ELSE pattern_block_matrix

----------------------------------------------------------------------------
(* add_subnodes and illegal_transition *)

\* illegal_transition with the scan of the branch starting at slot 1
illegal_transition_from_1(parent_id, child_id, branch_ids, level, matrix) ==
    LET blocker == matrix[parent_id][child_id]
    IN  IF blocker = 0 THEN 0
        ELSE IF blocker = -1 THEN 1
        ELSE IF \E i \in 1..(level - 1) : blocker = branch_ids[i] THEN 0
        ELSE 1

\* 1 if the transition is illegal on this branch, 0 if legal
illegal_transition(parent_id, child_id, branch_ids, level, matrix) ==
    LET blocker == matrix[parent_id][child_id]
    IN  IF blocker = 0 THEN 0
        ELSE IF blocker = -1 THEN 1
        ELSE IF \E i \in 0..(level - 1) : blocker = branch_ids[i] THEN 0
        ELSE 1

\* present with the scan of the branch starting at slot 1
present_from_1(i, ids, level) ==
    IF \E j \in 1..(level - 1) : i = ids[j] THEN 1 ELSE 0

\* the inner loop of add_subnodes: is id i present on this branch
present(i, ids, level) ==
    IF \E j \in 0..(level - 1) : i = ids[j] THEN 1 ELSE 0

\* the test of add_subnodes that makes the loop skip candidate i
skipped(parent_id, i, ids, level, matrix) ==
    (present(i, ids, level) > 0)
        \/ (illegal_transition(parent_id, i, ids, level, matrix) > 0)

\* the static array node_ids while add_subnodes works below the node n:
\* the ids of the branch in slots 0..level-1, 0 in the others
node_ids_at(n) ==
    [k \in 0..(MAX_POINTS - 1) |-> IF k < Len(n) THEN n[k + 1] ELSE 0]

\* id of a node: the last point of its path, 0 for the root
id_of(n) == IF n = <<>> THEN 0 ELSE n[Len(n)]

\* add_subnodes with the candidate loop stopping before MAX_POINTS
add_subnodes_short(n, matrix) ==
    LET ids == node_ids_at(n)
        parent_id == id_of(n)
        level == Len(n)
    IN  SelectSeq([i \in 1..(MAX_POINTS - 1) |-> i],
                  LAMBDA i : ~skipped(parent_id, i, ids, level, matrix))

\* the ids of child_nodes[0..child_count-1] of node n, in the order
\* add_subnodes appends them (candidates i = 1..MAX_POINTS in turn)
add_subnodes(n, matrix) ==
    LET ids == node_ids_at(n)
        parent_id == id_of(n)
        level == Len(n)
    IN  SelectSeq([i \in 1..MAX_POINTS |-> i],
                  LAMBDA i : ~skipped(parent_id, i, ids, level, matrix))

child_count(n, matrix) == Len(add_subnodes(n, matrix))

----------------------------------------------------------------------------
(* fill_guess_matrix *)

\* nodes[idx] = v; a store past the end does not land in the array
store(arr, idx, v) == IF idx \in DOMAIN arr THEN [arr EXCEPT ![idx] = v] ELSE arr

\* nodes[idx]; a load past the end yields whatever lies there
load(arr, idx, past) == IF idx \in DOMAIN arr THEN arr[idx] ELSE past

\* clear_matrix filling in NONE instead of DISABLED
clear_matrix_none == [a \in 0..MAX_POINTS |-> [b \in 0..9 |-> 0]]

\* "init all transitions to illegal"
clear_matrix == [a \in 0..MAX_POINTS |-> [b \in 0..9 |-> -1]]

\* "add nodes to be used of guessing", from character i (1-based) on
RECURSIVE add_nodes(_, _, _)
add_nodes(list, i, arr) ==
    IF i > Len(list) THEN arr
    ELSE LET j == list[i] - ASCII_ZERO
         IN  add_nodes(list, i + 1,
                       IF (j >= 0) /\ (j <= MAX_POINTS) THEN store(arr, j, j) ELSE arr)

\* the indices add_nodes uses on nodes[]
add_nodes_idx(list) ==
    {list[i] - ASCII_ZERO : i \in 1..Len(list)} \cap 0..MAX_POINTS

\* the values nodes[i] the copy loop reads, i = 0..MAX_POINTS
copied(arr, past) == {load(arr, i, past) : i \in 0..MAX_POINTS}

\* copy_matrix copying an entry when either of its indices is a node
copy_matrix_either(matrix, arr, past) ==
    [a \in 0..MAX_POINTS |-> [b \in 0..9 |->
        IF a \in copied(arr, past) \/ b \in copied(arr, past)
        THEN pattern_block_matrix[a][b]
        ELSE matrix[a][b]]]

\* "copy valid parts from the original transition matrix"
copy_matrix(matrix, arr, past) ==
    [a \in 0..MAX_POINTS |-> [b \in 0..9 |->
        IF a \in copied(arr, past) /\ b \in copied(arr, past)
        THEN pattern_block_matrix[a][b]
        ELSE matrix[a][b]]]

zero_nodes == [k \in 0..(MAX_POINTS - 1) |-> 0]

\* the table a whole call leaves behind
fill_guess_matrix(list, past) ==
    copy_matrix(clear_matrix, add_nodes(list, 1, zero_nodes), past)

----------------------------------------------------------------------------
(* Inputs *)

\* what the slot after nodes[] may hold: a point, 0, or no table index at all
Garbage == {-1, 0, 4, 9, 10}

\* characters of a -g argument: '/', '0', '1', '2', '3', '5', '9', ':'
NodeChars == {47, 48, 49, 50, 51, 53, 57, 58}

NodeLists == UNION {[1..n -> NodeChars] : n \in 0..MaxLen}

\* -g arguments whose trees are walked: up to MaxNodes points, ascending
Digits == {ASCII_ZERO + d : d \in 1..MAX_POINTS}

GuessLists ==
    {s \in UNION {[1..n -> Digits] : n \in 0..MaxNodes} :
        \A i \in 1..(Len(s) - 1) : s[i] < s[i + 1]}

no_flags == [summary_flag |-> 0, guess_flag |-> 0, gen_pattern_len |-> 0,
             pattern_file |-> "NULL"]

no_args == [s |-> FALSE, r |-> <<>>, o |-> "none", g |-> <<>>, h |-> FALSE]

zero_count == [k \in 0..(MAX_POINTS - 1) |-> 0]

----------------------------------------------------------------------------
(* add_subnodes, step by step *)

\* state at the call add_subnodes(root_node, 0, pattern_block_matrix), line 172,
\* or add_subnodes(guess_root_node, 0, guess_matrix), line 199; a frame holds
\* the loop variable i and the ids of the child_nodes[] filled so far
InitBuild ==
    /\ pc = "add_subnodes"
    /\ \/ /\ table = "pattern_block_matrix"
          /\ guess_matrix = <<>>
          /\ nodelist = <<>>
          /\ oob = 0
          /\ flags = [no_flags EXCEPT !.summary_flag = 1]
       \/ /\ table = "guess_matrix"
          /\ nodelist \in GuessLists
          /\ oob \in Garbage \cap 0..9
          /\ guess_matrix = fill_guess_matrix(nodelist, oob)
          /\ flags = [no_flags EXCEPT !.guess_flag = 1]
    /\ node_ids = zero_nodes
    /\ node = <<>>
    /\ frames = <<[i |-> 1, child_nodes |-> <<>>]>>
    /\ pattern_count = <<>>
    /\ sum = 0
    /\ valid_sum = 0
    /\ branch = 0
    /\ file = <<>>
    /\ len = 0
    /\ trial = 0
    /\ nodes = <<>>
    /\ nodes_idx = {}
    /\ table_idx = {}
    /\ args = no_args
    /\ out = <<>>

\* the next i >= from the loop of add_subnodes does not skip (lines 274-290),
\* MAX_POINTS + 1 if the loop ends
next_candidate(parent_id, from, ids, level, matrix) ==
    LET left == {i \in from..MAX_POINTS : ~skipped(parent_id, i, ids, level, matrix)}
    IN  IF left = {} THEN MAX_POINTS + 1
        ELSE CHOOSE i \in left : \A k \in left : i <= k

\* lines 274-303: skip to the next candidate, save its id in node_ids[level],
\* create the child and call add_subnodes on it at level + 1
AddSubnode ==
    /\ pc = "add_subnodes"
    /\ LET level == Len(frames) - 1
           i == next_candidate(id_of(node), frames[Len(frames)].i, node_ids, level,
                               block_matrix)
       IN  /\ i <= MAX_POINTS
           /\ node_ids' = [node_ids EXCEPT ![level] = i]
           /\ node' = Append(node, i)
           /\ frames' = Append([frames EXCEPT ![Len(frames)].i = i],
                               [i |-> 1, child_nodes |-> <<>>])
    /\ UNCHANGED <<pc, table, guess_matrix, pattern_count, sum, valid_sum, branch,
                   file, len, trial, nodelist, oob, nodes, nodes_idx, table_idx,
                   args, flags, out>>

\* lines 274, 310, 304-307: the loop ends and the call returns; the caller
\* counts the child (child_count++) and clears node_ids[level]
AddReturn ==
    /\ pc = "add_subnodes"
    /\ LET level == Len(frames) - 1
       IN  /\ next_candidate(id_of(node), frames[Len(frames)].i, node_ids, level,
                             block_matrix) > MAX_POINTS
           /\ IF level = 0
              THEN /\ pc' = "built"
                   /\ UNCHANGED <<frames, node, node_ids>>
              ELSE /\ pc' = pc
                   /\ frames' = [SubSeq(frames, 1, level) EXCEPT
                                    ![level] = [i |-> frames[level].i + 1,
                                                child_nodes |->
                                                    Append(frames[level].child_nodes,
                                                           frames[level].i)]]
                   /\ node' = SubSeq(node, 1, level - 1)
                   /\ node_ids' = [node_ids EXCEPT ![level - 1] = 0]
    /\ UNCHANGED <<table, guess_matrix, pattern_count, sum, valid_sum, branch, file,
                   len, trial, nodelist, oob, nodes, nodes_idx, table_idx, args,
                   flags, out>>

NextBuild == AddSubnode \/ AddReturn

SpecBuild == InitBuild /\ [][NextBuild]_vars

----------------------------------------------------------------------------
(* Claims about the child lists *)

\* points on the way from the root to node n
used_of(n) == {n[k] : k \in 1..Len(n)}

\* the points one legal transition away from node n, as the claim states them
legal_next(n, matrix) ==
    {i \in 1..MAX_POINTS :
        /\ i \notin used_of(n)
        /\ matrix[id_of(n)][i] # DISABLED
        /\ (matrix[id_of(n)][i] = NONE \/ matrix[id_of(n)][i] \in used_of(n))}

\* the loop of add_subnodes for the node at hand has ended
loop_ended ==
    next_candidate(id_of(node), frames[Len(frames)].i, node_ids, Len(frames) - 1,
                   block_matrix) > MAX_POINTS

\* C3: while add_subnodes builds a tree (base or restricted table), the child
\* list of the node at hand is ascending and holds exactly the legal next
\* points below the loop variable: the unused points whose transition is not
\* DISABLED and is NONE or blocked by a used point; when the loop ends it
\* holds all of them.  No id repeats on the path to the node and the path has
\* at most 9 points
C3_ChildLists ==
    (pc \in {"add_subnodes", "built"}) =>
        LET top == frames[Len(frames)]
            child_nodes == top.child_nodes
        IN  /\ Len(node) = Len(frames) - 1
            /\ Len(node) <= MAX_POINTS
            /\ Cardinality(used_of(node)) = Len(node)
            /\ used_of(node) \subseteq 1..MAX_POINTS
            /\ node_ids = node_ids_at(node)
            /\ \A k \in 1..(Len(child_nodes) - 1) : child_nodes[k] < child_nodes[k + 1]
            /\ {child_nodes[k] : k \in 1..Len(child_nodes)}
                   = {c \in legal_next(node, block_matrix) : c < top.i}
            /\ loop_ended =>
                   /\ {child_nodes[k] : k \in 1..Len(child_nodes)}
                          = legal_next(node, block_matrix)
                   /\ child_nodes = add_subnodes(node, block_matrix)

\* the child list of the node 2,1 of a restricted tree is complete: the
\* blocker 2 of 1 -> 3 is used, so 3 is a child, and 1 -> 7 is DISABLED
C3_Witness ==
    /\ pc = "add_subnodes"
    /\ ~Unrestricted
    /\ node = <<2, 1>>
    /\ loop_ended
    /\ frames[Len(frames)].child_nodes = <<3>>
    /\ block_matrix[1][7] = DISABLED

----------------------------------------------------------------------------
(* print_summary and count_valid_patterns *)

\* state at the call print_summary(root_node) / print_summary(guess_root_node)
InitSummary ==
    /\ pc = "print_summary"
    /\ \/ /\ table = "pattern_block_matrix"
          /\ guess_matrix = <<>>
          /\ nodelist = <<>>
          /\ oob = 0
          /\ flags = [no_flags EXCEPT !.summary_flag = 1]
       \/ /\ table = "guess_matrix"
          /\ nodelist \in GuessLists
          /\ oob \in Garbage \cap 0..9
          /\ guess_matrix = fill_guess_matrix(nodelist, oob)
          /\ flags = [no_flags EXCEPT !.guess_flag = 1]
    /\ node_ids = zero_nodes
    /\ node = <<>>
    /\ frames = <<>>
    /\ pattern_count = <<>>
    /\ sum = 0
    /\ valid_sum = 0
    /\ branch = 0
    /\ file = <<>>
    /\ len = 0
    /\ trial = 0
    /\ nodes = <<>>
    /\ nodes_idx = {}
    /\ table_idx = {}
    /\ args = no_args
    /\ out = <<>>

RECURSIVE count_valid_patterns(_, _, _, _)
RECURSIVE count_children(_, _, _, _, _, _)
\* the loop of count_valid_patterns from child i (0-based) on, count being
\* pattern_count: count the child at this level (a slot of the array), then
\* walk the child's subtree at level + 1
count_children(root, child_nodes, matrix, count, level, i) ==
    IF (level \notin DOMAIN count) \/ (i >= Len(child_nodes)) THEN count
    ELSE count_children(root, child_nodes, matrix,
             count_valid_patterns(Append(root, child_nodes[i + 1]), matrix,
                 [count EXCEPT ![level] = count[level] + 1], level + 1),
             level, i + 1)

\* count_valid_patterns(root, pattern_count, level): pattern_count afterwards
count_valid_patterns(root, matrix, count, level) ==
    count_children(root, add_subnodes(root, matrix), matrix, count, level, 0)

RECURSIVE total(_, _)
\* sum of pattern_count[from..MAX_POINTS-1]
total(count, from) ==
    IF from > MAX_POINTS - 1 THEN 0 ELSE count[from] + total(count, from + 1)

\* print_totals with the test on i off by one (i > 3)
print_totals_late(count) ==
    [sum |-> total(count, 0), valid_sum |-> total(count, 4)]

\* the loop of lines 437-443: sum over all i, valid_sum over i > 2
print_totals(count) ==
    [sum |-> total(count, 0), valid_sum |-> total(count, 3)]

\* lines 431-447: clear the counters, count, print the lines and the totals
PrintSummary ==
    /\ pc = "print_summary"
    /\ pattern_count' = count_valid_patterns(<<>>, block_matrix, zero_count, 0)
    /\ sum' = print_totals(pattern_count').sum
    /\ valid_sum' = print_totals(pattern_count').valid_sum
    /\ out' = Append(out, [what |-> "summary", count |-> pattern_count',
                           sum |-> sum', valid_sum |-> valid_sum'])
    /\ pc' = "summary_done"
    /\ UNCHANGED <<table, guess_matrix, node, frames, branch, file, len, trial,
                   nodelist, oob, node_ids, nodes, nodes_idx, table_idx, args, flags>>

NextSummary == PrintSummary

SpecSummary == InitSummary /\ [][NextSummary]_vars

----------------------------------------------------------------------------
(* Claims about the counts and the child lists *)

REFERENCE_COUNTS == <<9, 56, 320, 1624, 7152, 26016, 72912, 140704, 140704>>

\* C1: once count_valid_patterns has walked the unrestricted tree, slot d-1 of
\* pattern_count holds 9, 56, 320, 1624, 7152, 26016, 72912, 140704, 140704
\* for d = 1..9
C1_ReferenceCounts ==
    (pc = "summary_done" /\ Unrestricted)
        => \A d \in 1..MAX_POINTS : pattern_count[d - 1] = REFERENCE_COUNTS[d]

C1_Witness ==
    pc = "summary_done" /\ Unrestricted /\ pattern_count[MAX_POINTS - 1] > 0

\* C2 as stated: print_summary reports the total 389112 and the valid
\* subtotal 387936 for the unrestricted tree
C2_StatedTotals ==
    (pc = "summary_done" /\ Unrestricted) => (sum = 389112 /\ valid_sum = 387936)

\* C2 amended: print_summary reports the total 389497 (lengths 1..9) and the
\* valid subtotal 389112 (lengths 4..9) for the unrestricted tree
C2_Totals ==
    (pc = "summary_done" /\ Unrestricted) => (sum = 389497 /\ valid_sum = 389112)

C2_Witness ==
    pc = "summary_done" /\ Unrestricted /\ out # <<>> /\ valid_sum < sum

----------------------------------------------------------------------------
(* subtree_to_file *)

\* state at the call subtree_to_file(guess_root_node, pattern_file)
InitDump ==
    /\ pc = "subtree_to_file"
    /\ table = "guess_matrix"
    /\ nodelist \in GuessLists
    /\ oob \in Garbage \cap 0..9
    /\ guess_matrix = fill_guess_matrix(nodelist, oob)
    /\ flags = [no_flags EXCEPT !.guess_flag = 1, !.pattern_file = "open"]
    /\ node_ids = zero_nodes
    /\ node = <<>>
    /\ frames = <<-1>>
    /\ pattern_count = <<>>
    /\ sum = 0
    /\ valid_sum = 0
    /\ branch = 0
    /\ file = <<>>
    /\ len = 0
    /\ trial = 0
    /\ nodes = <<>>
    /\ nodes_idx = {}
    /\ table_idx = {}
    /\ args = no_args
    /\ out = <<>>

\* the first loop, lines 406-408: one line per child of the node
child_lines(n, matrix, br) ==
    [k \in 1..child_count(n, matrix) |-> (br * 10) + add_subnodes(n, matrix)[k]]

\* lines 402-408: on entry (frame index -1) seed branch, write the children
DumpEnter ==
    /\ pc \in {"subtree_to_file", "dump"}
    /\ frames[Len(frames)] = -1
    /\ LET br == IF branch = 0 THEN id_of(node) ELSE branch
       IN  /\ branch' = br
           /\ file' = file \o child_lines(node, block_matrix, br)
    /\ frames' = [frames EXCEPT ![Len(frames)] = 0]
    /\ pc' = "dump"
    /\ UNCHANGED <<table, guess_matrix, node, pattern_count, sum, valid_sum, len, trial,
                   nodelist, oob, node_ids, nodes, nodes_idx, table_idx, args, flags, out>>

\* lines 410-412: extend branch by child i and call subtree_to_file on it
DumpDescend ==
    /\ pc = "dump"
    /\ LET i == frames[Len(frames)]
           child_nodes == add_subnodes(node, block_matrix)
       IN  /\ i >= 0
           /\ i < Len(child_nodes)
           /\ branch' = branch * 10 + child_nodes[i + 1]
           /\ node' = Append(node, child_nodes[i + 1])
    /\ frames' = Append(frames, -1)
    /\ UNCHANGED <<pc, table, guess_matrix, pattern_count, sum, valid_sum, file, len,
                   trial, nodelist, oob, node_ids, nodes, nodes_idx, table_idx, args, flags, out>>

\* DumpReturn without line 413: branch is not restored after the call
DumpReturnKeepsBranch ==
    /\ pc = "dump"
    /\ frames[Len(frames)] = child_count(node, block_matrix)
    /\ IF Len(frames) = 1
       THEN /\ frames' = <<>>
            /\ node' = node
            /\ pc' = "dump_done"
       ELSE /\ frames' = [SubSeq(frames, 1, Len(frames) - 1)
                             EXCEPT ![Len(frames) - 1] = frames[Len(frames) - 1] + 1]
            /\ node' = SubSeq(node, 1, Len(node) - 1)
            /\ pc' = pc
    /\ UNCHANGED <<table, guess_matrix, pattern_count, sum, valid_sum, branch, file, len,
                   trial, nodelist, oob, node_ids, nodes, nodes_idx, table_idx, args, flags, out>>

\* lines 410, 416, 413: the second loop is over: return; the caller restores
\* branch (branch / 10) and goes on with its i++
DumpReturn ==
    /\ pc = "dump"
    /\ frames[Len(frames)] = child_count(node, block_matrix)
    /\ IF Len(frames) = 1
       THEN /\ frames' = <<>>
            /\ node' = node
            /\ branch' = branch
            /\ pc' = "dump_done"
       ELSE /\ frames' = [SubSeq(frames, 1, Len(frames) - 1)
                             EXCEPT ![Len(frames) - 1] = frames[Len(frames) - 1] + 1]
            /\ node' = SubSeq(node, 1, Len(node) - 1)
            /\ branch' = branch \div 10
            /\ pc' = pc
    /\ UNCHANGED <<table, guess_matrix, pattern_count, sum, valid_sum, file, len, trial,
                   nodelist, oob, node_ids, nodes, nodes_idx, table_idx, args, flags, out>>

NextDump == DumpEnter \/ DumpDescend \/ DumpReturn

SpecDump == InitDump /\ [][NextDump]_vars

----------------------------------------------------------------------------
(* Claims about the dumped lines and the restricted trees *)

RECURSIVE subtree(_, _)
\* every node of the subtree under n, n excluded
subtree(n, matrix) ==
    UNION {{Append(n, add_subnodes(n, matrix)[k])}
               \cup subtree(Append(n, add_subnodes(n, matrix)[k]), matrix) :
           k \in 1..child_count(n, matrix)}

RECURSIVE decimal(_)
\* the decimal concatenation of the ids of a path
decimal(n) ==
    IF n = <<>> THEN 0 ELSE decimal(SubSeq(n, 1, Len(n) - 1)) * 10 + n[Len(n)]

RECURSIVE preorder(_, _, _)
\* depth-first pre-order listing of the subtree under n, from child k on
preorder(n, matrix, k) ==
    IF k > child_count(n, matrix) THEN <<>>
    ELSE LET c == Append(n, add_subnodes(n, matrix)[k])
         IN  <<decimal(c)>> \o preorder(c, matrix, 1) \o preorder(n, matrix, k + 1)

\* position of a line in the file (0 if absent)
position(line) ==
    IF \E k \in 1..Len(file) : file[k] = line
    THEN CHOOSE k \in 1..Len(file) : file[k] = line
    ELSE 0

\* n is a proper prefix of m
extends(m, n) == Len(m) > Len(n) /\ SubSeq(m, 1, Len(n)) = n

\* C7 as stated: the lines written are the depth-first pre-order, ascending
\* child listing of all paths of length >= 1
C7_PreOrder ==
    (pc = "dump_done") => file = preorder(<<>>, block_matrix, 1)

\* C7 amended: every path of length >= 1 is written exactly once as its
\* decimal concatenation, a pattern's line precedes the lines of all its
\* extensions, and the lines of the children of one node are written together,
\* in ascending id order, before any line of a descendant of these children;
\* the subtrees are then listed child after child in ascending order
C7_LevelBlocks ==
    (pc = "dump_done") =>
        LET all == subtree(<<>>, block_matrix)
        IN  /\ Len(file) = Cardinality(all)
            /\ {file[k] : k \in 1..Len(file)} = {decimal(n) : n \in all}
            /\ branch = 0
            /\ \A n \in all : \A m \in all :
                   extends(m, n) => position(decimal(n)) < position(decimal(m))
            /\ \A n \in all \cup {<<>>} :
                   LET child_nodes == add_subnodes(n, block_matrix)
                   IN  /\ \A k \in 1..(Len(child_nodes) - 1) :
                              position(decimal(Append(n, child_nodes[k + 1])))
                                  = position(decimal(Append(n, child_nodes[k]))) + 1
                       /\ \A k \in 1..Len(child_nodes) : \A m \in all :
                              extends(m, n) /\ Len(m) > Len(n) + 1
                                  => position(decimal(Append(n, child_nodes[k])))
                                         < position(decimal(m))
                       /\ \A k \in 1..(Len(child_nodes) - 1) : \A m1 \in all : \A m2 \in all :
                              (extends(m1, Append(n, child_nodes[k]))
                                   /\ extends(m2, Append(n, child_nodes[k + 1])))
                                  => position(decimal(m1)) < position(decimal(m2))

\* a finished dump of a tree in which a blocker was lifted: 213 is written
\* after 2, 21 and 23
C7_Witness ==
    /\ pc = "dump_done"
    /\ position(213) > position(23)
    /\ position(23) > position(21)
    /\ position(21) > position(2)
    /\ position(2) > 0

\* the -g argument is one point p in 1..8
single_point == Len(nodelist) = 1 /\ nodelist[1] - ASCII_ZERO \in 1..(MAX_POINTS - 1)

----------------------------------------------------------------------------
(* print_random_patterns *)

\* -r arguments that reach print_random_patterns (main calls it when > 0):
\* too short, 4..6, the longest, too long; a walk of 7 or 8 points is a walk
\* of 9 points cut short
RandomLens == {1, 2, 3, 4, 5, 6, MAX_POINTS, MAX_POINTS + 1}

\* state at the call print_random_patterns(root_node, gen_pattern_len)
InitRandom ==
    /\ pc = "print_random_patterns"
    /\ table = "pattern_block_matrix"
    /\ guess_matrix = <<>>
    /\ len \in RandomLens
    /\ flags = [no_flags EXCEPT !.gen_pattern_len = len]
    /\ node_ids = zero_nodes
    /\ node = <<>>
    /\ frames = <<>>
    /\ pattern_count = <<>>
    /\ sum = 0
    /\ valid_sum = 0
    /\ branch = 0
    /\ file = <<>>
    /\ trial = 0
    /\ nodelist = <<>>
    /\ oob = 0
    /\ nodes = <<>>
    /\ nodes_idx = {}
    /\ table_idx = {}
    /\ args = no_args
    /\ out = <<>>

\* lines 462-470: warn about an invalid length, seed, enter the loop
RandomBegin ==
    /\ pc = "print_random_patterns"
    /\ out' = IF (len < MIN_LEN) \/ (len > MAX_POINTS)
              THEN Append(out, [what |-> "invalid pattern length", len |-> len])
              ELSE out
    /\ trial' = 0
    /\ node' = <<>>
    /\ pc' = "random_walk"
    /\ UNCHANGED <<table, guess_matrix, frames, pattern_count, sum, valid_sum, branch, file,
                   len, nodelist, oob, node_ids, nodes, nodes_idx, table_idx, args, flags>>

\* lines 473-477: pick a child at random, print its id, move to it;
\* node is current_node, Len(node) is pattern_len, node holds the ids printed
RandomDot ==
    /\ pc = "random_walk"
    /\ trial < TRIALS
    /\ Len(node) < len
    /\ LET child_nodes == add_subnodes(node, block_matrix)
       IN  \E dot \in 0..(Len(child_nodes) - 1) :
               node' = Append(node, child_nodes[dot + 1])
    /\ UNCHANGED <<pc, table, guess_matrix, frames, pattern_count, sum, valid_sum, branch,
                   file, len, trial, nodelist, oob, node_ids, nodes, nodes_idx, table_idx,
                   args, flags, out>>

\* line 474 at a node without children: rand() % 0
RandomDivZero ==
    /\ pc = "random_walk"
    /\ trial < TRIALS
    /\ Len(node) < len
    /\ child_count(node, block_matrix) = 0
    /\ pc' = "div_by_zero"
    /\ UNCHANGED <<table, guess_matrix, node, frames, pattern_count, sum, valid_sum, branch,
                   file, len, trial, nodelist, oob, node_ids, nodes, nodes_idx, table_idx,
                   args, flags, out>>

\* lines 479, 470-472: end the line, next trial starts at the root
RandomNewline ==
    /\ pc = "random_walk"
    /\ trial < TRIALS
    /\ Len(node) >= len
    /\ trial' = trial + 1
    /\ node' = <<>>
    /\ UNCHANGED <<pc, table, guess_matrix, frames, pattern_count, sum, valid_sum, branch,
                   file, len, nodelist, oob, node_ids, nodes, nodes_idx, table_idx, args,
                   flags, out>>

\* lines 470, 482: all trials done
RandomReturn ==
    /\ pc = "random_walk"
    /\ trial >= TRIALS
    /\ pc' = "random_done"
    /\ UNCHANGED <<table, guess_matrix, node, frames, pattern_count, sum, valid_sum, branch,
                   file, len, trial, nodelist, oob, node_ids, nodes, nodes_idx, table_idx,
                   args, flags, out>>

NextRandom ==
    RandomBegin \/ RandomDot \/ RandomDivZero \/ RandomNewline \/ RandomReturn

SpecRandom == InitRandom /\ [][NextRandom]_vars

----------------------------------------------------------------------------
(* Claims about the random walk *)

\* C6: for a length in 4..9 the walk on the unrestricted tree never takes
\* rand() % 0 at a node without children before len ids are printed, never
\* prints more than len ids in a trial, and the ids printed in a trial are
\* pairwise distinct, each one a legal transition from the one before given
\* the ids printed so far
C6_RandomWalk ==
    (len \in MIN_LEN..MAX_POINTS) =>
        /\ pc # "div_by_zero"
        /\ (pc = "random_walk") =>
               /\ Len(node) <= len
               /\ trial <= TRIALS
               /\ Cardinality(used_of(node)) = Len(node)
               /\ (node # <<>>) =>
                      node[Len(node)] \in
                          legal_next(SubSeq(node, 1, Len(node) - 1), pattern_block_matrix)

\* the last trial of -r 4 has printed four ids, one step over a lifted
\* blocker (1 -> 3 with 2 used)
C6_Witness ==
    /\ pc = "random_walk"
    /\ len = MIN_LEN
    /\ trial = TRIALS - 1
    /\ node = <<2, 1, 3, 6>>

----------------------------------------------------------------------------
(* fill_guess_matrix, step by step *)

\* state at the call fill_guess_matrix(optarg, guess_matrix), line 151
InitFill ==
    /\ pc = "fill_guess_matrix"
    /\ table = "guess_matrix"
    /\ guess_matrix = [a \in 0..9 |-> [b \in 0..9 |-> 0]]
    /\ nodelist \in NodeLists
    /\ oob \in Garbage
    /\ nodes = zero_nodes
    /\ nodes_idx = {}
    /\ table_idx = {}
    /\ flags = [no_flags EXCEPT !.guess_flag = 1]
    /\ node_ids = zero_nodes
    /\ node = <<>>
    /\ frames = <<>>
    /\ pattern_count = <<>>
    /\ sum = 0
    /\ valid_sum = 0
    /\ branch = 0
    /\ file = <<>>
    /\ len = 0
    /\ trial = 0
    /\ args = no_args
    /\ out = <<>>

\* lines 493-501: nodes[] = {0}, every entry of the table DISABLED
FillClear ==
    /\ pc = "fill_guess_matrix"
    /\ nodes' = zero_nodes
    /\ guess_matrix' = clear_matrix
    /\ table_idx' = table_idx \cup 0..MAX_POINTS
    /\ pc' = "fill_nodes"
    /\ UNCHANGED <<table, node, frames, pattern_count, sum, valid_sum, branch, file,
                   len, trial, nodelist, oob, node_ids, nodes_idx, args, flags, out>>

\* lines 504-510: nodes[j] = j for every character '0' + j, j in 0..MAX_POINTS
FillNodes ==
    /\ pc = "fill_nodes"
    /\ nodes' = add_nodes(nodelist, 1, nodes)
    /\ nodes_idx' = nodes_idx \cup add_nodes_idx(nodelist)
    /\ pc' = "fill_copy"
    /\ UNCHANGED <<table, guess_matrix, node, frames, pattern_count, sum, valid_sum,
                   branch, file, len, trial, nodelist, oob, node_ids, table_idx, args, flags, out>>

\* lines 513-520: block_matrix[nodes[i]][nodes[j]] for i, j = 0..MAX_POINTS;
\* an index read past nodes[] that is no table index leaves the tables
FillCopy ==
    /\ pc = "fill_copy"
    /\ nodes_idx' = nodes_idx \cup 0..MAX_POINTS
    /\ table_idx' = table_idx \cup copied(nodes, oob)
    /\ guess_matrix' = copy_matrix(guess_matrix, nodes, oob)
    /\ pc' = IF copied(nodes, oob) \subseteq 0..9 THEN "filled" ELSE "fault"
    /\ UNCHANGED <<table, node, frames, pattern_count, sum, valid_sum, branch, file,
                   len, trial, nodelist, oob, node_ids, nodes, args, flags, out>>

NextFill == FillClear \/ FillNodes \/ FillCopy

SpecFill == InitFill /\ [][NextFill]_vars

----------------------------------------------------------------------------
(* Claims about fill_guess_matrix *)

\* the identifiers supplied in the -g argument
supplied == {nodelist[i] - ASCII_ZERO : i \in 1..Len(nodelist)} \cap 0..9

\* the table that is the base table on allowed x allowed, DISABLED elsewhere
restricted_to(allowed) ==
    [a \in 0..9 |-> [b \in 0..9 |->
        IF a \in allowed /\ b \in allowed THEN pattern_block_matrix[a][b] ELSE DISABLED]]

C10_InBounds ==
    /\ nodes_idx \subseteq 0..(MAX_POINTS - 1)
    /\ table_idx \subseteq 0..9
    /\ pc # "fault"

----------------------------------------------------------------------------
(* main *)

\* atoi(optarg) of the -r arguments tried
RArgs == {-1, 0, 3, 4, 9, 10}

\* command lines: -s, -r N (<<>> if absent), -o FILE (the fopen succeeds or
\* fails), -g NODES (<<>> if absent), -h
CommandLines ==
    [s : BOOLEAN,
     r : {<<>>} \cup {<<n>> : n \in RArgs},
     o : {"none", "ok", "fail"},
     g : {<<>>} \cup {<<l>> : l \in GuessLists},
     h : BOOLEAN]

\* state at the entry of main
InitMain ==
    /\ pc = "main"
    /\ args \in CommandLines
    /\ oob \in IF args.g = <<>> THEN {0} ELSE Garbage
    /\ flags = no_flags
    /\ table = "none"
    /\ guess_matrix = <<>>
    /\ nodelist = <<>>
    /\ node_ids = zero_nodes
    /\ node = <<>>
    /\ frames = <<>>
    /\ pattern_count = <<>>
    /\ sum = 0
    /\ valid_sum = 0
    /\ branch = 0
    /\ file = <<>>
    /\ len = 0
    /\ trial = 0
    /\ nodes = <<>>
    /\ nodes_idx = {}
    /\ table_idx = {}
    /\ out = <<>>

\* the copy loop of fill_guess_matrix indexes the tables out of range
fill_faults(list, past) ==
    ~(copied(add_nodes(list, 1, zero_nodes), past) \subseteq 0..9)

\* lines 129-162: the getopt loop
MainGetopt ==
    /\ pc = "main"
    /\ flags' = [summary_flag |-> IF args.s THEN 1 ELSE 0,
                 guess_flag |-> IF args.g # <<>> THEN 1 ELSE 0,
                 gen_pattern_len |->
                     IF args.r # <<>> /\ args.r[1] > 0 THEN args.r[1] ELSE 0,
                 pattern_file |-> IF args.o = "ok" THEN "open" ELSE "NULL"]
    /\ IF args.g # <<>>
       THEN /\ guess_matrix' = fill_guess_matrix(args.g[1], oob)
            /\ nodelist' = args.g[1]
       ELSE UNCHANGED <<guess_matrix, nodelist>>
    /\ pc' = IF args.g # <<>> /\ fill_faults(args.g[1], oob) THEN "fault"
             ELSE IF args.h THEN "exit_failure"
             ELSE "main_all"
    /\ UNCHANGED <<table, node, frames, pattern_count, sum, valid_sum, branch, file,
                   len, trial, oob, node_ids, nodes, nodes_idx, table_idx, args, out>>

\* lines 164-172: build the tree of all patterns if -s, -o or -r asks for it
MainBuild ==
    /\ pc = "main_all"
    /\ IF flags.summary_flag > 0 \/ flags.pattern_file # "NULL"
              \/ flags.gen_pattern_len > 0
       THEN table' = "pattern_block_matrix" /\ pc' = "main_summary"
       ELSE table' = table /\ pc' = "main_guess"
    /\ UNCHANGED <<guess_matrix, node, frames, pattern_count, sum, valid_sum, branch,
                   file, len, trial, nodelist, oob, node_ids, nodes, nodes_idx, table_idx,
                   args, flags, out>>

\* lines 174-180: the summary, and under it the dump of the tree to the file
MainSummary ==
    /\ pc = "main_summary"
    /\ IF flags.summary_flag > 0
       THEN /\ out' = Append(out, [what |-> "summary", tree |-> "all"])
            /\ file' = IF flags.pattern_file # "NULL"
                       THEN file \o <<[what |-> "header", tree |-> "all"],
                                      [what |-> "patterns", tree |-> "all"]>>
                       ELSE file
       ELSE UNCHANGED <<out, file>>
    /\ pc' = "main_random"
    /\ UNCHANGED <<table, guess_matrix, node, frames, pattern_count, sum, valid_sum,
                   branch, len, trial, nodelist, oob, node_ids, nodes, nodes_idx, table_idx,
                   args, flags>>

\* lines 182-184 and print_random_patterns as a whole: a warning for a length
\* outside 4..9, then ten lines of len ids each; a walk longer than
\* MAX_POINTS stops at a leaf of depth MAX_POINTS with rand() % 0
MainRandom ==
    /\ pc = "main_random"
    /\ IF flags.gen_pattern_len > 0
       THEN LET l == flags.gen_pattern_len
                warned == IF (l < MIN_LEN) \/ (l > MAX_POINTS)
                          THEN Append(out, [what |-> "invalid pattern length", len |-> l])
                          ELSE out
            IN  IF l <= MAX_POINTS
                THEN /\ out' = Append(warned, [what |-> "random patterns", len |-> l,
                                               lines |-> TRIALS])
                     /\ pc' = "main_cleanup"
                ELSE /\ out' = Append(warned, [what |-> "random patterns",
                                               len |-> MAX_POINTS, lines |-> 0])
                     /\ pc' = "div_by_zero"
       ELSE /\ out' = out
            /\ pc' = "main_cleanup"
    /\ UNCHANGED <<table, guess_matrix, node, frames, pattern_count, sum, valid_sum,
                   branch, file, len, trial, nodelist, oob, node_ids, nodes, nodes_idx,
                   table_idx, args, flags>>

\* lines 186-188: delete the tree of all patterns
MainCleanup ==
    /\ pc = "main_cleanup"
    /\ table' = "none"
    /\ pc' = "main_guess"
    /\ UNCHANGED <<guess_matrix, node, frames, pattern_count, sum, valid_sum, branch,
                   file, len, trial, nodelist, oob, node_ids, nodes, nodes_idx, table_idx,
                   args, flags, out>>

\* lines 191-213: the -g run: build, summary, dump, delete
MainGuess ==
    /\ pc = "main_guess"
    /\ IF flags.guess_flag > 0
       THEN /\ out' = Append(out, [what |-> "summary", tree |-> "guess"])
            /\ file' = IF flags.pattern_file # "NULL"
                       THEN file \o <<[what |-> "header", tree |-> "guess"],
                                      [what |-> "patterns", tree |-> "guess"]>>
                       ELSE file
       ELSE UNCHANGED <<out, file>>
    /\ pc' = "main_close"
    /\ UNCHANGED <<table, guess_matrix, node, frames, pattern_count, sum, valid_sum,
                   branch, len, trial, nodelist, oob, node_ids, nodes, nodes_idx, table_idx,
                   args, flags>>

\* lines 215-218: close the file, return EXIT_SUCCESS
MainExit ==
    /\ pc = "main_close"
    /\ pc' = "exit_success"
    /\ UNCHANGED <<table, guess_matrix, node, frames, pattern_count, sum, valid_sum,
                   branch, file, len, trial, nodelist, oob, node_ids, nodes, nodes_idx,
                   table_idx, args, flags, out>>

NextMain ==
    MainGetopt \/ MainBuild \/ MainSummary \/ MainRandom \/ MainCleanup
        \/ MainGuess \/ MainExit

SpecMain == InitMain /\ [][NextMain]_vars

----------------------------------------------------------------------------
(* Claims about main *)

\* C8: with a -r length outside 4..9 no random pattern is printed and the run
\* does not abort
C8_InvalidLengthSkipped ==
    (args.r # <<>> /\ args.r[1] \notin MIN_LEN..MAX_POINTS) =>
        /\ pc # "div_by_zero"
        /\ \A k \in 1..Len(out) : out[k].what # "random patterns"

\* C9: when the program exits with -o FILE given and opened, the patterns of
\* the unrestricted tree are in the file
C9_FileHasAllPatterns ==
    (pc = "exit_success" /\ args.o = "ok") =>
        \E k \in 1..Len(file) : file[k] = [what |-> "patterns", tree |-> "all"]

====
